---- MODULE Spec2Model ----
(***************************************************************************)
(* A model of mini_weasyprint.py: the CSS rule store (CSSParser), the      *)
(* stack-based tree builder (MiniHTMLParser), the converter                *)
(* (MiniWeasyPrint: font registration, style application, story building), *)
(* and the command-line run (main).                                        *)
(*                                                                         *)
(* Python values are modelled as follows.                                  *)
(*   dict            a function whose DOMAIN is the set of keys            *)
(*   str (text)      a sequence of one-character strings, so that strip,   *)
(*                   join and the <b>/<i> wrapping are computed            *)
(*   str (names)     a TLA+ string (tags, selectors, property names)       *)
(*   None / ''       the empty string (the code only tests truthiness)     *)
(*   object heap     html_parser.nodes, a sequence of HTMLElement records; *)
(*                   a reference is the index of the record                *)
(***************************************************************************)
EXTENDS Integers, Sequences, FiniteSets, TLC

VARIABLES
    REPORTLAB_AVAILABLE,     \* module global set by the import block
    names_bound,             \* whether the import block got as far as binding A4/letter
    fonts,                   \* the file system: state of each candidate font file
    input_readable,          \* the file system: can the input HTML file be opened
    output_writable,         \* the file system: can the output PDF be written
    pc,                      \* position of the run
    page_size,               \* converter.page_size
    korean_font_registered,  \* converter.korean_font_registered
    default_styles,          \* converter.default_styles
    registerFont_calls,      \* the font paths handed to pdfmetrics.registerFont, in order
    styles,                  \* converter.css_parser.styles
    html_parser,             \* converter.html_parser (a MiniHTMLParser)
    story,                   \* the story list of the last html_to_pdf call
    call_inputs,             \* history: the arguments of the html_to_pdf calls so far
    success,                 \* the value returned by the last conversion
    exit_code,               \* the status the process ended with (-1 while running)
    unhandled                \* an exception propagated out of main()

vars == <<REPORTLAB_AVAILABLE, names_bound, fonts, input_readable, output_writable,
          pc, page_size, korean_font_registered, default_styles, registerFont_calls,
          styles, html_parser, story, call_inputs, success, exit_code,
          unhandled>>

(***************************************************************************)
(* Bounds of the model.                                                    *)
(***************************************************************************)
\* The number of elements (besides the document root) one fed document may create.
MaxNodes == 3
\* The number of rules in the style blocks of one document.
MaxRules == 2
\* The number of conversions whose inputs are recorded.
MaxCalls == 2

(***************************************************************************)
(* Python helpers.                                                         *)
(***************************************************************************)
EmptyDict == [k \in {} |-> ""]

None == ""

\* dict.update: keys of the argument overwrite, other keys are kept.
Update(d, e) ==
    [k \in (DOMAIN d) \cup (DOMAIN e) |-> IF k \in DOMAIN e THEN e[k] ELSE d[k]]

\* dict.get(key) with the default None.
Get(d, key) == IF key \in DOMAIN d THEN d[key] ELSE None

\* list[:-1]
Front(s) == SubSeq(s, 1, Len(s) - 1)

IsSpace(c) == c = " "

\* str.strip() on a text.
RECURSIVE lstrip(_)
lstrip(s) == IF s # <<>> /\ IsSpace(Head(s)) THEN lstrip(Tail(s)) ELSE s

RECURSIVE rstrip(_)
rstrip(s) == IF s # <<>> /\ IsSpace(s[Len(s)]) THEN rstrip(Front(s)) ELSE s

strip(s) == rstrip(lstrip(s))

\* ' '.join(parts)
RECURSIVE join(_)
join(parts) ==
    IF parts = <<>> THEN <<>>
    ELSE IF Len(parts) = 1 THEN parts[1]
    ELSE parts[1] \o <<" ">> \o join(Tail(parts))

(***************************************************************************)
(* class CSSParser                                                         *)
(***************************************************************************)
\* One declaration of a rule body, as split(';') yields it: either it holds
\* a ':' and splits into a property and a value, or it does not.
Decl(prop, value) == [colon |-> TRUE, prop |-> prop, value |-> value]
Malformed == [colon |-> FALSE, prop |-> "", value |-> ""]

\* The inner loop of parse_css: the style_dict of one rule body.
RECURSIVE parse_declarations(_, _)
parse_declarations(declarations, style_dict) ==
    IF declarations = <<>> THEN style_dict
    ELSE LET decl == Head(declarations)
         IN parse_declarations(
                Tail(declarations),
                IF decl.colon
                THEN Update(style_dict, (decl.prop :> decl.value))
                ELSE style_dict)

\* The assignment that files the style_dict of one rule under its selector.
store_rule(current, selector, style_dict) ==
    Update(current, (selector :> style_dict))

\* CSSParser.parse_css on one style block, given as its sequence of rules.
RECURSIVE parse_css(_, _)
parse_css(current, rules) ==
    IF rules = <<>> THEN current
    ELSE parse_css(
             store_rule(current, Head(rules).selector,
                        parse_declarations(Head(rules).declarations, EmptyDict)),
             Tail(rules))

\* The three lookups of get_style; a selector that is absent adds nothing.
tag_layer(current, tag) ==
    IF tag \in DOMAIN current THEN current[tag] ELSE EmptyDict

class_layer(current, class_name) ==
    IF class_name # None /\ ("." \o class_name) \in DOMAIN current
    THEN current["." \o class_name] ELSE EmptyDict

id_layer(current, tag_id) ==
    IF tag_id # None /\ ("#" \o tag_id) \in DOMAIN current
    THEN current["#" \o tag_id] ELSE EmptyDict

\* get_style with the class rule merged after the id rule.
get_style_id_before_class(current, tag, class_name, tag_id) ==
    Update(Update(Update(EmptyDict, tag_layer(current, tag)),
                  id_layer(current, tag_id)),
           class_layer(current, class_name))

\* CSSParser.get_style
get_style(current, tag, class_name, tag_id) ==
    Update(Update(Update(EmptyDict, tag_layer(current, tag)),
                  class_layer(current, class_name)),
           id_layer(current, tag_id))

(***************************************************************************)
(* class HTMLElement and class MiniHTMLParser                              *)
(***************************************************************************)
HTMLElement(tag, attrs, content) ==
    [tag |-> tag, attrs |-> attrs, content |-> content,
     children |-> <<>>, parent |-> 0, style |-> EmptyDict]

\* HTMLElement.add_child: the child is allocated at the next index.
add_child(nodes, parent, child) ==
    LET id == Len(nodes) + 1
        grown == Append(nodes, [child EXCEPT !.parent = parent])
    IN [grown EXCEPT ![parent].children = Append(@, id)]

VoidTags == {"br", "hr", "img", "input", "meta", "link"}

\* MiniHTMLParser.__init__
MiniHTMLParser ==
    [nodes |-> <<HTMLElement("document", EmptyDict, <<>>)>>,
     current_element |-> 1,
     element_stack |-> <<1>>,
     raised |-> FALSE]

\* The test that decides whether a start tag is pushed.
is_pushed(tag) == tag \notin VoidTags

handle_starttag(p, tag, attrs) ==
    LET id == Len(p.nodes) + 1
        nodes == add_child(p.nodes, p.current_element, HTMLElement(tag, attrs, <<>>))
    IN IF is_pushed(tag)
       THEN [p EXCEPT !.nodes = nodes,
                      !.element_stack = Append(@, id),
                      !.current_element = id]
       ELSE [p EXCEPT !.nodes = nodes]

\* The test of handle_endtag without the check that the root stays.
endtag_pops_unguarded(p, tag) == p.nodes[p.current_element].tag = tag

\* The condition under which an end tag pops.
endtag_pops(p, tag) ==
    Len(p.element_stack) > 1 /\ p.nodes[p.current_element].tag = tag

\* element_stack.pop() followed by element_stack[-1]; either raises IndexError
\* on an empty list.
pop_element(p) ==
    IF p.element_stack = <<>> THEN [p EXCEPT !.raised = TRUE]
    ELSE LET rest == Front(p.element_stack)
         IN IF rest = <<>>
            THEN [p EXCEPT !.element_stack = rest, !.raised = TRUE]
            ELSE [p EXCEPT !.element_stack = rest,
                           !.current_element = rest[Len(rest)]]

handle_endtag(p, tag) ==
    IF endtag_pops(p, tag) THEN pop_element(p) ELSE p

handle_data(p, data) ==
    IF strip(data) # <<>>
    THEN [p EXCEPT !.nodes =
              add_child(@, p.current_element, HTMLElement("text", EmptyDict, strip(data)))]
    ELSE p

\* One event of the token stream HTMLParser.feed delivers.
StartEvent(tag, attrs) == [type |-> "start", tag |-> tag, attrs |-> attrs, data |-> <<>>]
EndEvent(tag) == [type |-> "end", tag |-> tag, attrs |-> EmptyDict, data |-> <<>>]
DataEvent(data) == [type |-> "data", tag |-> "", attrs |-> EmptyDict, data |-> data]

dispatch(p, ev) ==
    IF p.raised THEN p
    ELSE IF ev.type = "start" THEN handle_starttag(p, ev.tag, ev.attrs)
    ELSE IF ev.type = "end" THEN handle_endtag(p, ev.tag)
    ELSE IF ev.type = "data" THEN handle_data(p, ev.data)
    ELSE p

\* HTMLParser.feed on a whole token stream.
RECURSIVE feed(_, _)
feed(p, events) ==
    IF events = <<>> THEN p ELSE feed(dispatch(p, Head(events)), Tail(events))

(***************************************************************************)
(* class MiniWeasyPrint                                                    *)
(***************************************************************************)
\* The candidate font files of _register_korean_fonts, in the order tried.
windows_font_paths == <<"malgun.ttf", "gulim.ttc", "batang.ttc", "NanumGothic.ttf">>

\* The state a candidate font file can be in: os.path.exists is false, or the
\* file exists and registerFont raises, or the file exists and registers.
FontStates == {"missing", "unloadable", "loadable"}

\* The loop with a registration failure ending it instead of continuing.
RECURSIVE register_from_failure_aborts(_, _, _)
register_from_failure_aborts(i, fnts, calls) ==
    IF i > Len(windows_font_paths) THEN [registered |-> FALSE, calls |-> calls]
    ELSE IF fnts[i] = "missing" THEN register_from_failure_aborts(i + 1, fnts, calls)
    ELSE [registered |-> fnts[i] = "loadable",
          calls |-> Append(calls, windows_font_paths[i])]

\* The loop of _register_korean_fonts from candidate i on; calls is the log of
\* registerFont calls so far.  A success breaks, an exception continues.
RECURSIVE register_from(_, _, _)
register_from(i, fnts, calls) ==
    IF i > Len(windows_font_paths) THEN [registered |-> FALSE, calls |-> calls]
    ELSE IF fnts[i] = "missing" THEN register_from(i + 1, fnts, calls)
    ELSE IF fnts[i] = "loadable"
         THEN [registered |-> TRUE, calls |-> Append(calls, windows_font_paths[i])]
    ELSE register_from(i + 1, fnts, Append(calls, windows_font_paths[i]))

\* MiniWeasyPrint._register_korean_fonts
register_korean_fonts(available, fnts) ==
    IF ~available THEN [registered |-> FALSE, calls |-> <<>>]
    ELSE register_from(1, fnts, <<>>)

\* The font_name __init__ puts into every default style.
font_name_for(registered) == IF registered THEN "NanumGothic" ELSE "Helvetica"

HeadingDefault(size, margin, font_name) ==
    [k \in {"font-size", "font-weight", "margin-bottom", "font-name"} |->
        CASE k = "font-size" -> size
          [] k = "font-weight" -> "bold"
          [] k = "margin-bottom" -> margin
          [] OTHER -> font_name]

\* The default_styles table built by __init__.
DefaultStyles(font_name) ==
    [t \in {"h1", "h2", "h3", "h4", "h5", "h6", "p", "div", "span"} |->
        CASE t = "h1" -> HeadingDefault("24pt", "12pt", font_name)
          [] t = "h2" -> HeadingDefault("20pt", "10pt", font_name)
          [] t = "h3" -> HeadingDefault("16pt", "8pt", font_name)
          [] t = "h4" -> HeadingDefault("14pt", "6pt", font_name)
          [] t = "h5" -> HeadingDefault("12pt", "4pt", font_name)
          [] t = "h6" -> HeadingDefault("10pt", "2pt", font_name)
          [] t = "p" -> [k \in {"font-size", "margin-bottom", "font-name"} |->
                            CASE k = "font-size" -> "12pt"
                              [] k = "margin-bottom" -> "6pt"
                              [] OTHER -> font_name]
          [] OTHER -> [k \in {"font-size", "font-name"} |->
                            IF k = "font-size" THEN "12pt" ELSE font_name]]

\* The first step of apply_styles: the built-in defaults of the tag.
default_layer(defaults, tag) ==
    IF tag \in DOMAIN defaults THEN defaults[tag] ELSE EmptyDict

\* The style apply_styles leaves on one element.
element_style(defaults, current, element) ==
    Update(Update(element.style, default_layer(defaults, element.tag)),
           get_style(current, element.tag,
                     Get(element.attrs, "class"), Get(element.attrs, "id")))

\* MiniWeasyPrint.apply_styles(document): the recursion visits every element
\* below the root, and every element of the heap is below the root.
apply_styles(nodes, defaults, current) ==
    [i \in DOMAIN nodes |->
        [nodes[i] EXCEPT !.style = element_style(defaults, current, nodes[i])]]

\* MiniWeasyPrint._get_element_text
RECURSIVE get_element_text(_, _)
RECURSIVE text_parts(_, _)
get_element_text(nodes, e) ==
    IF nodes[e].tag = "text" THEN nodes[e].content
    ELSE join(text_parts(nodes, nodes[e].children))

text_parts(nodes, children) ==
    IF children = <<>> THEN <<>>
    ELSE LET child == nodes[Head(children)]
             rest == text_parts(nodes, Tail(children))
             child_text == get_element_text(nodes, Head(children))
         IN IF child.tag = "text" THEN <<child.content>> \o rest
            ELSE IF child_text = <<>> THEN rest
            ELSE IF child.tag \in {"strong", "b"}
                 THEN <<(<<"<", "b", ">">> \o child_text \o <<"<", "/", "b", ">">>)>> \o rest
            ELSE IF child.tag \in {"em", "i"}
                 THEN <<(<<"<", "i", ">">> \o child_text \o <<"<", "/", "i", ">">>)>> \o rest
            ELSE <<child_text>> \o rest

\* The items of a story.
Paragraph(text, style_name) ==
    [kind |-> "Paragraph", text |-> text, style |-> style_name, height |-> 0]
Spacer(height) ==
    [kind |-> "Spacer", text |-> <<>>, style |-> "", height |-> height]

\* The tags the heading branch of _add_elements_to_story accepts.
heading_tags == {"h1", "h2", "h3", "h4", "h5", "h6"}

\* int(element.tag[1]) for the tags h1..h9.
heading_level ==
    [t \in {"h1", "h2", "h3", "h4", "h5", "h6", "h7", "h8", "h9"} |->
        CASE t = "h1" -> 1 [] t = "h2" -> 2 [] t = "h3" -> 3 [] t = "h4" -> 4
          [] t = "h5" -> 5 [] t = "h6" -> 6 [] t = "h7" -> 7 [] t = "h8" -> 8
          [] OTHER -> 9]

heading_names == <<"Heading1", "Heading2", "Heading3", "Heading4", "Heading5", "Heading6">>

\* style_name = f'Heading{level}' if level <= 6 else 'Heading6'
style_name_of(tag) ==
    IF heading_level[tag] <= 6 THEN heading_names[heading_level[tag]] ELSE "Heading6"

\* The paragraph style used: the Korean copy when a font was registered.
heading_style(tag, korean) ==
    IF korean THEN "Korean" \o style_name_of(tag) ELSE style_name_of(tag)

normal_style(korean) == IF korean THEN "KoreanNormal" ELSE "Normal"

\* The Spacer appended after a heading and after a paragraph.
heading_gap(element) == 12
paragraph_gap(element) == 6

\* What the last branch of _add_elements_to_story does with one child: it
\* recurses and drops the value returned (the content of a text child).
RECURSIVE add_elements_to_story(_, _, _, _)
RECURSIVE add_children_to_story(_, _, _, _)
add_elements_to_story(nodes, e, items, korean) ==
    LET element == nodes[e]
        text == get_element_text(nodes, e)
    IN IF element.tag = "text" THEN items
       ELSE IF element.tag \in heading_tags
            THEN IF text # <<>>
                 THEN items \o <<Paragraph(text, heading_style(element.tag, korean)),
                               Spacer(heading_gap(element))>>
                 ELSE items
       ELSE IF element.tag = "p"
            THEN IF text # <<>>
                 THEN items \o <<Paragraph(text, normal_style(korean)),
                               Spacer(paragraph_gap(element))>>
                 ELSE items
       ELSE IF element.tag = "br" THEN items \o <<Spacer(12)>>
       ELSE IF element.tag = "hr" THEN items \o <<Spacer(6), Spacer(6)>>
       ELSE add_children_to_story(nodes, element.children, items, korean)

add_children_to_story(nodes, children, items, korean) ==
    IF children = <<>> THEN items
    ELSE add_children_to_story(
             nodes, Tail(children),
             add_elements_to_story(nodes, Head(children), items, korean), korean)

\* The loop of parse_html over the style blocks found in the input.
RECURSIVE parse_style_blocks(_, _)
parse_style_blocks(current, css_matches) ==
    IF css_matches = <<>> THEN current
    ELSE parse_style_blocks(parse_css(current, Head(css_matches)), Tail(css_matches))

\* The part of html_to_pdf that follows html_parser.feed: apply_styles, the
\* story and doc.build.  An exception raised while feeding, or by doc.build
\* when the output cannot be written, is caught and turns into False.
after_feed(fed, current, korean, defaults, writable) ==
    IF fed.raised
    THEN [html_parser |-> fed, story |-> <<>>, success |-> FALSE]
    ELSE LET styled == [fed EXCEPT !.nodes = apply_styles(@, defaults, current)]
         IN [html_parser |-> styled,
             story |-> add_elements_to_story(styled.nodes, 1, <<>>, korean),
             success |-> writable]

\* MiniWeasyPrint.html_to_pdf on a converter (its rule store, font flag and
\* default styles) and an input; the result holds the converter's new rule
\* store and parser, the story, and the value returned.  Without reportlab it
\* returns False at once and leaves the converter as it is.
html_to_pdf(available, current, parser, korean, defaults, content, writable) ==
    IF ~available
    THEN [styles |-> current, story |-> <<>>, success |-> FALSE,
          html_parser |-> parser]
    ELSE LET parsed_styles == parse_style_blocks(current, content.css_matches)
             done == after_feed(feed(MiniHTMLParser, content.events), parsed_styles,
                                korean, defaults, writable)
         IN [styles |-> parsed_styles, story |-> done.story, success |-> done.success,
             html_parser |-> done.html_parser]

(***************************************************************************)
(* The inputs.                                                             *)
(***************************************************************************)
Selectors == {"p", ".note", "#x"}

RuleBodies ==
    { <<Decl("color", "blue")>>,
      <<Decl("color", "black"), Malformed, Decl("font-size", "14pt")>> }

Rules == [selector : Selectors, declarations : RuleBodies]

RuleLists == UNION {[1..n -> Rules] : n \in 0..MaxRules}

\* The text of a style block, for the tokenizer: one pair of braces a rule.
RECURSIVE css_text(_)
css_text(rules) ==
    IF rules = <<>> THEN <<>> ELSE <<"{", "}">> \o css_text(Tail(rules))

style_events(block) ==
    <<StartEvent("style", EmptyDict), DataEvent(css_text(block)), EndEvent("style")>>

RECURSIVE blocks_events(_)
blocks_events(blocks) ==
    IF blocks = <<>> THEN <<>>
    ELSE style_events(Head(blocks)) \o blocks_events(Tail(blocks))

NoteX == [k \in {"class", "id"} |-> IF k = "class" THEN "note" ELSE "x"]

\* <p class="note" id="x">a</p><div class="note"> b </div>
Body ==
    << StartEvent("p", NoteX), DataEvent(<<"a">>), EndEvent("p"),
       StartEvent("div", ("class" :> "note")), DataEvent(<<" ", "b", " ">>),
       EndEvent("div") >>

\* An input document: its style blocks as the regular expression of parse_html
\* finds them, and its token stream as HTMLParser.feed delivers it.  The rules
\* are either all in one style block or each in a block of its own.
Document(rules, split) ==
    LET blocks == IF rules = <<>> THEN <<>>
                  ELSE IF split THEN [i \in 1..Len(rules) |-> <<rules[i]>>]
                  ELSE <<rules>>
    IN [css_matches |-> blocks, events |-> blocks_events(blocks) \o Body]

Documents == {Document(r, s) : r \in RuleLists, s \in BOOLEAN}

\* The file the command line is run on.
InputFile ==
    Document(<< [selector |-> "p", declarations |-> <<Decl("color", "blue")>>] >>, FALSE)

FeedTags == {"h2", "h7", "p", "div", "b", "br"}
EndTags == FeedTags \cup {"document"}
FeedData == {<<" ">>, <<"a">>, <<" ", "a", " ">>}

AllMissing == [i \in 1..Len(windows_font_paths) |-> "missing"]

(***************************************************************************)
(* The converter after construction, then conversions of whole documents.  *)
(***************************************************************************)
\* The state MiniWeasyPrint() leaves, with the import block having succeeded.
Constructed(fnts) ==
    LET reg == register_korean_fonts(TRUE, fnts)
    IN /\ REPORTLAB_AVAILABLE = TRUE
       /\ names_bound = TRUE
       /\ fonts = fnts
       /\ page_size = "A4"
       /\ korean_font_registered = reg.registered
       /\ default_styles = DefaultStyles(font_name_for(reg.registered))
       /\ registerFont_calls = reg.calls
       /\ styles = EmptyDict
       /\ html_parser = MiniHTMLParser
       /\ story = <<>>
       /\ call_inputs = <<>>
       /\ success = FALSE
       /\ exit_code = -1
       /\ unhandled = FALSE

InitStyle ==
    /\ \E fnts \in {AllMissing, [AllMissing EXCEPT ![1] = "loadable"]} : Constructed(fnts)
    /\ input_readable = TRUE
    /\ output_writable = TRUE
    /\ pc = "idle"

\* converter.html_to_pdf(content, output_path)
HtmlToPdf(content) ==
    /\ pc = "idle"
    /\ \E r \in {html_to_pdf(REPORTLAB_AVAILABLE, styles, html_parser,
                             korean_font_registered, default_styles, content,
                             output_writable)} :
          /\ styles' = r.styles
          /\ html_parser' = r.html_parser
          /\ story' = r.story
          /\ success' = r.success
    /\ UNCHANGED <<REPORTLAB_AVAILABLE, names_bound, fonts, input_readable,
                   output_writable, pc, page_size, korean_font_registered,
                   default_styles, registerFont_calls, exit_code,
                   unhandled>>

\* Any number of conversions on one converter.
Convert == \E content \in Documents : HtmlToPdf(content) /\ UNCHANGED call_inputs

NextStyle == Convert

SpecStyle == InitStyle /\ [][NextStyle]_vars

\* At most MaxCalls conversions on one converter, with their inputs recorded.
ConvertRecorded ==
    \E content \in Documents :
        /\ Len(call_inputs) < MaxCalls
        /\ HtmlToPdf(content)
        /\ call_inputs' = Append(call_inputs, content)

NextCalls == ConvertRecorded

SpecCalls == InitStyle /\ [][NextCalls]_vars

(***************************************************************************)
(* Properties of the rule store and of style resolution.                   *)
(***************************************************************************)
\* The rule the store holds for a selector; no rule reads as the empty rule.
RuleFor(selector) == IF selector \in DOMAIN styles THEN styles[selector] ELSE EmptyDict

ClassRuleOf(element) ==
    IF "class" \in DOMAIN element.attrs /\ element.attrs["class"] # ""
    THEN RuleFor("." \o element.attrs["class"]) ELSE EmptyDict

IdRuleOf(element) ==
    IF "id" \in DOMAIN element.attrs /\ element.attrs["id"] # ""
    THEN RuleFor("#" \o element.attrs["id"]) ELSE EmptyDict

DefaultOf(element) ==
    IF element.tag \in DOMAIN default_styles THEN default_styles[element.tag] ELSE EmptyDict

\* The value the cascade tag < class < id over the defaults gives a key.
Cascaded(element, k) ==
    IF k \in DOMAIN IdRuleOf(element) THEN IdRuleOf(element)[k]
    ELSE IF k \in DOMAIN ClassRuleOf(element) THEN ClassRuleOf(element)[k]
    ELSE IF k \in DOMAIN RuleFor(element.tag) THEN RuleFor(element.tag)[k]
    ELSE DefaultOf(element)[k]

\* C1: the style of every element of the converted document is the layering
\* defaults, tag rule, class rule, id rule: its keys are the keys of the four
\* layers, and each key has the value of the highest layer that sets it.
C1_StyleLayering ==
    \A i \in DOMAIN html_parser.nodes :
        LET element == html_parser.nodes[i]
        IN /\ DOMAIN element.style =
                  DOMAIN DefaultOf(element) \cup DOMAIN RuleFor(element.tag)
                  \cup DOMAIN ClassRuleOf(element) \cup DOMAIN IdRuleOf(element)
           /\ \A k \in DOMAIN element.style : element.style[k] = Cascaded(element, k)

\* C1 witness: a converted <p class="note" id="x"> under a p rule and a .note
\* rule that disagree on color and no #x rule: color is the class rule's, the
\* font-size set by the tag rule alone and the default margin are kept.
C1_Witness ==
    \E i \in DOMAIN html_parser.nodes :
        LET element == html_parser.nodes[i]
        IN /\ element.tag = "p"
           /\ Get(element.attrs, "class") = "note"
           /\ "#x" \notin DOMAIN styles
           /\ "p" \in DOMAIN styles /\ ".note" \in DOMAIN styles
           /\ "color" \in DOMAIN styles["p"] /\ "color" \in DOMAIN styles[".note"]
           /\ styles["p"]["color"] = "black" /\ styles[".note"]["color"] = "blue"
           /\ "font-size" \in DOMAIN styles["p"]
           /\ element.style["color"] = "blue"
           /\ element.style["font-size"] = "14pt"
           /\ element.style["margin-bottom"] = "6pt"

\* The concatenation of a sequence of sequences.
RECURSIVE Flatten(_)
Flatten(ss) == IF ss = <<>> THEN <<>> ELSE Head(ss) \o Flatten(Tail(ss))

\* Every rule parse_css has been given so far, in the order given.
RulesProcessed ==
    Flatten([c \in DOMAIN call_inputs |-> Flatten(call_inputs[c].css_matches)])

\* The positions (rule, declaration) that declare a property for a selector.
Declaring(selector, prop) ==
    {<<r, d>> \in (DOMAIN RulesProcessed) \X (1..3) :
        /\ RulesProcessed[r].selector = selector
        /\ d \in DOMAIN RulesProcessed[r].declarations
        /\ RulesProcessed[r].declarations[d].colon
        /\ RulesProcessed[r].declarations[d].prop = prop}

Later(a, b) == a[1] > b[1] \/ (a[1] = b[1] /\ a[2] > b[2])

LastDeclaring(selector, prop) ==
    CHOOSE a \in Declaring(selector, prop) :
        \A b \in Declaring(selector, prop) : a = b \/ Later(a, b)

\* C2: the rule store is last-write-wins per property: a property some rule
\* declared for a selector is present in the store under that selector, with
\* the value of the last declaration of it.
C2_LastWriteWinsPerProperty ==
    \A selector \in Selectors, prop \in {"color", "font-size"} :
        Declaring(selector, prop) # {} =>
            /\ selector \in DOMAIN styles
            /\ prop \in DOMAIN styles[selector]
            /\ styles[selector][prop] =
                   LET a == LastDeclaring(selector, prop)
                   IN RulesProcessed[a[1]].declarations[a[2]].value

\* C8: no state crosses calls: what a conversion leaves (the document with its
\* resolved styles, the story) is what a new converter gives for the same input.
C8_NoStateAcrossCalls ==
    call_inputs # <<>> =>
        LET fresh == html_to_pdf(REPORTLAB_AVAILABLE, EmptyDict, MiniHTMLParser,
                                 korean_font_registered, default_styles,
                                 call_inputs[Len(call_inputs)], output_writable)
        IN /\ html_parser = fresh.html_parser
           /\ story = fresh.story
           /\ success = fresh.success

(***************************************************************************)
(* One conversion at the grain of the parser's handlers: feed delivers the *)
(* start tags, end tags and text of a document one at a time.              *)
(***************************************************************************)
InitParse ==
    /\ Constructed(AllMissing)
    /\ input_readable = TRUE
    /\ output_writable = TRUE
    /\ pc = "idle"

\* html_to_pdf up to the creation of the parser in parse_html (the documents
\* fed here hold no style block).
BeginFeed ==
    /\ pc = "idle"
    /\ REPORTLAB_AVAILABLE
    /\ pc' = "feeding"
    /\ html_parser' = MiniHTMLParser
    /\ story' = <<>>
    /\ UNCHANGED <<REPORTLAB_AVAILABLE, names_bound, fonts, input_readable,
                   output_writable, page_size, korean_font_registered, default_styles,
                   registerFont_calls, styles, call_inputs, success, exit_code,
                   unhandled>>

ParserStep(next_parser) ==
    /\ pc = "feeding"
    /\ ~html_parser.raised
    /\ html_parser' = next_parser
    /\ UNCHANGED <<REPORTLAB_AVAILABLE, names_bound, fonts, input_readable,
                   output_writable, pc, page_size, korean_font_registered,
                   default_styles, registerFont_calls, styles, story, call_inputs,
                   success, exit_code, unhandled>>

HasRoom == Len(html_parser.nodes) <= MaxNodes

StartTag(tag) == HasRoom /\ ParserStep(handle_starttag(html_parser, tag, EmptyDict))

EndTag(tag) == ParserStep(handle_endtag(html_parser, tag))

Data(data) == (HasRoom \/ strip(data) = <<>>) /\ ParserStep(handle_data(html_parser, data))

\* html_to_pdf from the return of feed on.
FinishConversion ==
    /\ pc = "feeding"
    /\ pc' = "idle"
    /\ \E r \in {after_feed(html_parser, styles, korean_font_registered,
                            default_styles, output_writable)} :
          /\ html_parser' = r.html_parser
          /\ story' = r.story
          /\ success' = r.success
    /\ UNCHANGED <<REPORTLAB_AVAILABLE, names_bound, fonts, input_readable,
                   output_writable, page_size, korean_font_registered, default_styles,
                   registerFont_calls, styles, call_inputs, exit_code, unhandled>>

NextParse ==
    \/ BeginFeed
    \/ \E tag \in FeedTags : StartTag(tag)
    \/ \E tag \in EndTags : EndTag(tag)
    \/ \E data \in FeedData : Data(data)
    \/ FinishConversion

SpecParse == InitParse /\ [][NextParse]_vars

(***************************************************************************)
(* Properties of the tree builder.                                         *)
(***************************************************************************)
Top(stack) == stack[Len(stack)]

ParserShape ==
    LET p == html_parser
    IN /\ ~p.raised
       /\ p.element_stack # <<>>
       /\ p.element_stack[1] = 1
       /\ p.nodes[1].tag = "document" /\ p.nodes[1].parent = 0
       /\ p.current_element = Top(p.element_stack)
       /\ \A k \in 2..Len(p.element_stack) :
              /\ p.nodes[p.element_stack[k]].parent = p.element_stack[k - 1]
              /\ \E c \in DOMAIN p.nodes[p.element_stack[k - 1]].children :
                     p.nodes[p.element_stack[k - 1]].children[c] = p.element_stack[k]
       /\ \A i \in DOMAIN p.nodes :
              p.nodes[i].tag \in VoidTags =>
                  /\ p.nodes[i].children = <<>>
                  /\ \A k \in DOMAIN p.element_stack : p.element_stack[k] # i

\* An end tag that names another tag than the current element's, or that
\* comes with only the root on the stack.
Unmatched(tag) ==
    \/ Len(html_parser.element_stack) <= 1
    \/ html_parser.nodes[html_parser.current_element].tag # tag

UnmatchedEndTagIgnored ==
    \A tag \in EndTags : (Unmatched(tag) /\ EndTag(tag)) => html_parser' = html_parser

\* C10: whatever events are fed, no handler raises, the stack is non-empty
\* with the root at the bottom, the current element is its top, every entry is
\* a child of the entry below, a void element is never on the stack and has no
\* child; and an unmatched end tag changes neither the stack nor the tree.
C10_ParserInvariant == []ParserShape /\ [][UnmatchedEndTagIgnored]_vars

\* C10 witness: an element was opened and closed again, another is open, and
\* a void element was added below the open one.
C10_Witness ==
    LET p == html_parser
    IN /\ pc = "feeding"
       /\ Len(p.element_stack) >= 2
       /\ \E i \in DOMAIN p.nodes :
              /\ p.nodes[i].tag \notin VoidTags \cup {"text", "document"}
              /\ \A k \in DOMAIN p.element_stack : p.element_stack[k] # i
       /\ \E i \in DOMAIN p.nodes :
              p.nodes[i].tag \in VoidTags /\ p.nodes[i].parent = p.current_element

(***************************************************************************)
(* Properties of the story.                                                *)
(***************************************************************************)
Nodes == html_parser.nodes

RECURSIVE IsBelow(_, _)
IsBelow(j, i) ==
    /\ Nodes[j].parent # 0
    /\ (Nodes[j].parent = i \/ IsBelow(Nodes[j].parent, i))

\* The element has no text: no text node with content lies below it.
NoTextBelow(i) ==
    \A j \in DOMAIN Nodes :
        (Nodes[j].tag = "text" /\ IsBelow(j, i)) => Nodes[j].content = <<>>

\* What _add_elements_to_story appends when called on element i.
ItemsOf(i) == add_elements_to_story(Nodes, i, <<>>, korean_font_registered)

Converted == pc = "idle" /\ success

BlockTags == heading_tags \cup {"p", "div"}

\* C3: in a converted document, a block element without text appends nothing
\* to the story, whatever children it has.
C3_EmptyBlockAddsNothing ==
    Converted =>
        \A i \in DOMAIN Nodes :
            (Nodes[i].tag \in BlockTags /\ NoTextBelow(i)) => ItemsOf(i) = <<>>

Contains(text, part) ==
    \E k \in 1..(Len(text) - Len(part) + 1) : SubSeq(text, k, k + Len(part) - 1) = part

\* C4: in a converted document, the content of every text node that is a
\* child of a div is part of the text of some paragraph of the story.
C4_ContainerTextKept ==
    Converted =>
        \A j \in DOMAIN Nodes :
            (Nodes[j].tag = "text" /\ Nodes[Nodes[j].parent].tag = "div") =>
                \E k \in DOMAIN story :
                    story[k].kind = "Paragraph" /\ Contains(story[k].text, Nodes[j].content)

\* The number of points a margin-bottom of the default style table stands for.
PointsOf ==
    [v \in {"12pt", "10pt", "8pt", "6pt", "4pt", "2pt"} |->
        CASE v = "12pt" -> 12 [] v = "10pt" -> 10 [] v = "8pt" -> 8
          [] v = "6pt" -> 6 [] v = "4pt" -> 4 [] OTHER -> 2]

\* C5: in a converted document, a heading or paragraph with text appends its
\* paragraph and then exactly one gap of the height of the margin-bottom of
\* its style; one without text appends nothing.
C5_GapIsMarginBottom ==
    Converted =>
        \A i \in DOMAIN Nodes :
            Nodes[i].tag \in heading_tags \cup {"p"} =>
                IF NoTextBelow(i) THEN ItemsOf(i) = <<>>
                ELSE /\ Len(ItemsOf(i)) = 2
                     /\ ItemsOf(i)[1].kind = "Paragraph"
                     /\ ItemsOf(i)[2].kind = "Spacer"
                     /\ ItemsOf(i)[2].height = PointsOf[Nodes[i].style["margin-bottom"]]

\* C9: in a converted document, a heading tag of a level above 6 that has
\* text appends what an h6 of the same content appends: the paragraph in the
\* Heading6 style and the gap.
C9_HeadingLevelClamped ==
    Converted =>
        \A i \in DOMAIN Nodes :
            (Nodes[i].tag \in {"h7", "h8", "h9"} /\ ~NoTextBelow(i)) =>
                ItemsOf(i) = add_elements_to_story([Nodes EXCEPT ![i].tag = "h6"], i, <<>>,
                                                   korean_font_registered)

(***************************************************************************)
(* The command-line run: the import block, then main().                    *)
(***************************************************************************)
\* The import block either succeeds, or fails at its first line (reportlab is
\* not installed: no name is bound), or fails at a line after the one that
\* binds A4 and letter.  The file system is any.
InitMain ==
    /\ \E outcome \in {"ok", "missing", "partial"} :
          /\ REPORTLAB_AVAILABLE = (outcome = "ok")
          /\ names_bound = (outcome # "missing")
    /\ fonts \in [1..Len(windows_font_paths) -> FontStates]
    /\ input_readable \in BOOLEAN
    /\ output_writable \in BOOLEAN
    /\ pc = "main"
    /\ page_size = "unset"
    /\ korean_font_registered = FALSE
    /\ default_styles = EmptyDict
    /\ registerFont_calls = <<>>
    /\ styles = EmptyDict
    /\ html_parser = MiniHTMLParser
    /\ story = <<>>
    /\ call_inputs = <<>>
    /\ success = FALSE
    /\ exit_code = -1
    /\ unhandled = FALSE

\* An exception nothing catches: the interpreter prints it and exits with 1.
Crash ==
    /\ unhandled' = TRUE
    /\ exit_code' = 1
    /\ pc' = "exited"

\* main() up to page_size = A4 if args.page_size == 'A4' else letter; either
\* name raises NameError when the import block did not bind it.
MainPageSize ==
    /\ pc = "main"
    /\ IF names_bound
       THEN /\ \E choice \in {"A4", "letter"} : page_size' = choice
            /\ pc' = "construct"
            /\ UNCHANGED <<exit_code, unhandled>>
       ELSE Crash /\ UNCHANGED page_size
    /\ UNCHANGED <<REPORTLAB_AVAILABLE, names_bound, fonts, input_readable,
                   output_writable, korean_font_registered, default_styles,
                   registerFont_calls, styles, html_parser, story, call_inputs,
                   success>>

\* converter = MiniWeasyPrint(); converter.page_size = page_size.  __init__
\* reads A4 before it registers fonts and builds the default styles.
MainConstruct ==
    /\ pc = "construct"
    /\ IF names_bound
       THEN \E reg \in {register_korean_fonts(REPORTLAB_AVAILABLE, fonts)} :
               /\ korean_font_registered' = reg.registered
               /\ registerFont_calls' = reg.calls
               /\ default_styles' = DefaultStyles(font_name_for(reg.registered))
               /\ styles' = EmptyDict
               /\ html_parser' = MiniHTMLParser
               /\ pc' = "convert"
               /\ UNCHANGED <<exit_code, unhandled>>
       ELSE /\ Crash
            /\ UNCHANGED <<korean_font_registered, registerFont_calls, default_styles,
                           styles, html_parser>>
    /\ UNCHANGED <<REPORTLAB_AVAILABLE, names_bound, fonts, input_readable,
                   output_writable, page_size, story, call_inputs, success>>

\* success = converter.html_file_to_pdf(args.input, args.output): a failure
\* of open or read is caught and returns False.
MainConvert ==
    /\ pc = "convert"
    /\ pc' = "exit"
    /\ IF input_readable
       THEN \E r \in {html_to_pdf(REPORTLAB_AVAILABLE, styles, html_parser,
                                  korean_font_registered, default_styles,
                                  InputFile, output_writable)} :
               /\ styles' = r.styles
               /\ html_parser' = r.html_parser
               /\ story' = r.story
               /\ success' = r.success
       ELSE /\ success' = FALSE
            /\ UNCHANGED <<styles, html_parser, story>>
    /\ UNCHANGED <<REPORTLAB_AVAILABLE, names_bound, fonts, input_readable,
                   output_writable, page_size, korean_font_registered, default_styles,
                   registerFont_calls, call_inputs, exit_code, unhandled>>

\* sys.exit(0) if success, else sys.exit(1)
MainExit ==
    /\ pc = "exit"
    /\ pc' = "exited"
    /\ exit_code' = IF success THEN 0 ELSE 1
    /\ UNCHANGED <<REPORTLAB_AVAILABLE, names_bound, fonts, input_readable,
                   output_writable, page_size, korean_font_registered, default_styles,
                   registerFont_calls, styles, html_parser, story, call_inputs,
                   success, unhandled>>

NextMain == MainPageSize \/ MainConstruct \/ MainConvert \/ MainExit

SpecMain == InitMain /\ [][NextMain]_vars

(***************************************************************************)
(* Properties of the run.                                                  *)
(***************************************************************************)
\* C6: the run ends without an unhandled exception, with exit code 0 when
\* the conversion succeeded and 1 when the input was unreadable, the library
\* unavailable or the output not writable.
C6_FailuresReportedNoCrash ==
    pc = "exited" =>
        /\ ~unhandled
        /\ exit_code =
               IF REPORTLAB_AVAILABLE /\ input_readable /\ output_writable THEN 0 ELSE 1

\* The converter was constructed.
ConverterBuilt == pc \in {"convert", "exit"} \/ (pc = "exited" /\ ~unhandled)

PathIndex(path) == CHOOSE i \in DOMAIN windows_font_paths : windows_font_paths[i] = path

Tried(i) ==
    \E k \in DOMAIN registerFont_calls : registerFont_calls[k] = windows_font_paths[i]

\* C7: registration tries the candidates in order; it tries exactly the
\* existing candidates up to the first that loads and none after it, a
\* missing or failing candidate not ending the walk; the flag is set exactly
\* when a tried candidate loaded, and without it every default style uses
\* Helvetica.
C7_FontRegistration ==
    ConverterBuilt =>
        /\ \A i \in DOMAIN windows_font_paths :
               Tried(i) <=> /\ REPORTLAB_AVAILABLE
                            /\ fonts[i] # "missing"
                            /\ \A j \in 1..(i - 1) : fonts[j] # "loadable"
        /\ \A k, l \in DOMAIN registerFont_calls :
               k < l => PathIndex(registerFont_calls[k]) < PathIndex(registerFont_calls[l])
        /\ korean_font_registered <=>
               \E i \in DOMAIN windows_font_paths : Tried(i) /\ fonts[i] = "loadable"
        /\ ~korean_font_registered =>
               \A t \in DOMAIN default_styles : default_styles[t]["font-name"] = "Helvetica"

\* C7 witness: the first candidate is missing, the second fails to register,
\* the third registers, and the fourth, which would register, is not tried.
C7_Witness ==
    /\ ConverterBuilt
    /\ fonts = <<"missing", "unloadable", "loadable", "loadable">>
    /\ registerFont_calls = <<"gulim.ttc", "batang.ttc">>
    /\ korean_font_registered

====
